---- MODULE Spec2Model ----
(***************************************************************************)
(* Session registry and chat endpoint of the code review assistant:        *)
(*   src/src/agent/agent.py   load_query_engine_tools, create_agent,        *)
(*                            agent_sessions, chat_history,                 *)
(*                            get_agent_for_pr, add_to_chat_history         *)
(*   src/src/main.py          chat_endpoint                                 *)
(*                                                                         *)
(* chat_endpoint is a coroutine on one event loop: it runs without         *)
(* interruption up to `await agent.achat(query)` and again from the        *)
(* return of that call to the end of the handler.  Each of those two       *)
(* stretches is one action.                                                *)
(***************************************************************************)
EXTENDS Integers, Sequences, FiniteSets, TLC

VARIABLES
    agent_sessions,   \* agent.py:323  session_key -> agent (or None)
    chat_history,     \* agent.py:324  session_key -> list of messages
    suspended,        \* requests waiting in `await agent.achat`, by turn number
    arrivals,         \* number of requests received so far
    created,          \* number of ReActAgent instances constructed so far
    last,             \* outcome of the request that finished most recently
    log_failed,       \* a write of persist_log raised in the request that
                      \* finished most recently (main.py:67-81, 127)
    registry,         \* one construction of a tool registry and agent and one
                      \* tool call on it, for the properties of
                      \* load_query_engine_tools / create_agent / the tools
    turn_loop         \* the reasoning loop of one agent.achat call: its
                      \* position, its step counts and the review sub-loop

vars == <<agent_sessions, chat_history, suspended, arrivals, created, last,
          log_failed, registry, turn_loop>>

(***************************************************************************)
(* Bounds                                                                  *)
(***************************************************************************)
MaxRequests == 2

(***************************************************************************)
(* Request field values                                                    *)
(***************************************************************************)
NoSessionId == "<None>"                       \* request.session_id is None
ClientSessionIds == {"", "A", "X"}            \* session ids a client may send
PrIds == {"X", "Y", "Z"}                      \* X, Y are indexed; Z is not
Modes == {"co_reviewer", "interactive_assistant", "bad_mode"}
ValidModes == {"co_reviewer", "interactive_assistant"}
Queries == {"start review", "what changed"}

(***************************************************************************)
(* The index store read by load_query_engine_tools.  Per project: does     *)
(* indexes/<pr_id> exist, can the Chroma client be opened, and for each of *)
(* the three collections: "loaded" (count > 0 and the index loads),        *)
(* "empty" (count = 0), "error" (get_collection or the index load raises). *)
(***************************************************************************)
IndexStore ==
    [p \in PrIds |->
        CASE p = "X" -> [dir |-> TRUE, client |-> TRUE,
                         pr_data |-> "loaded", source_code |-> "loaded",
                         pr_feature |-> "loaded"]
          [] p = "Y" -> [dir |-> TRUE, client |-> TRUE,
                         pr_data |-> "loaded", source_code |-> "empty",
                         pr_feature |-> "error"]
          [] OTHER   -> [dir |-> FALSE, client |-> FALSE,
                         pr_data |-> "error", source_code |-> "error",
                         pr_feature |-> "error"]]

\* agent.py:51-106
tool_configs ==
    << [storage_dir |-> "storage_pr_data",     name |-> "search_pr",
        corpus |-> "pr_data"],
       [storage_dir |-> "storage_source_code", name |-> "search_code",
        corpus |-> "source_code"],
       [storage_dir |-> "storage_pr_feature",  name |-> "search_requirements",
        corpus |-> "pr_feature"] >>

collection_name(pr_id, config) == pr_id \o "_" \o config.corpus

\* agent.py:154  `"pr_data" in config["collection_name"]`.  The collection
\* name is pr_id + "_" + corpus; of the three corpus suffixes only pr_data
\* contains the text, and a pr_id may contain it as well.
PrIdsContainingPrData == {"pr_data_7"}
contains_pr_data(pr_id, config) ==
    config.corpus = "pr_data" \/ pr_id \in PrIdsContainingPrData

CorpusStatus(store, config) ==
    CASE config.corpus = "pr_data"     -> store.pr_data
      [] config.corpus = "source_code" -> store.source_code
      [] OTHER                         -> store.pr_feature

\* agent.py:119-193, one iteration of the loop over tool_configs: the tools
\* list after the iteration.  An exception skips the append (continue).
load_one_tool_stub_on_error(tools, pr_id, store, config) ==
    LET status == CorpusStatus(store, config) IN
    IF status = "loaded"
    THEN Append(tools, [name |-> config.name, kind |-> "query_engine",
                        collection |-> collection_name(pr_id, config),
                        response_mode |->
                            IF contains_pr_data(pr_id, config)
                            THEN "refine" ELSE "tree_summarize",
                        pr_id |-> pr_id, sub_tools |-> <<>>])
    ELSE Append(tools, [name |-> config.name, kind |-> "empty_stub",
                        collection |-> collection_name(pr_id, config),
                        response_mode |-> "none",
                        pr_id |-> pr_id, sub_tools |-> <<>>])

load_one_tool_no_count_check(tools, pr_id, store, config) ==
    LET status == CorpusStatus(store, config) IN
    IF status = "error" THEN tools
    ELSE Append(tools, [name |-> config.name, kind |-> "query_engine",
                        collection |-> collection_name(pr_id, config),
                        response_mode |->
                            IF contains_pr_data(pr_id, config)
                            THEN "refine" ELSE "tree_summarize",
                        pr_id |-> pr_id, sub_tools |-> <<>>])

load_one_tool(tools, pr_id, store, config) ==
    LET status == CorpusStatus(store, config) IN
    IF status = "error" THEN tools
    ELSE IF status = "empty"
         THEN Append(tools, [name |-> config.name, kind |-> "empty_stub",
                             collection |-> collection_name(pr_id, config),
                             response_mode |-> "none",
                             pr_id |-> pr_id, sub_tools |-> <<>>])
         ELSE Append(tools, [name |-> config.name, kind |-> "query_engine",
                             collection |-> collection_name(pr_id, config),
                             response_mode |->
                                 IF contains_pr_data(pr_id, config)
                                 THEN "refine" ELSE "tree_summarize",
                             pr_id |-> pr_id, sub_tools |-> <<>>])

\* agent.py:116  for config in tool_configs
RECURSIVE load_loop_stops_at_error(_, _, _, _)
load_loop_stops_at_error(tools, pr_id, store, i) ==
    IF i > Len(tool_configs) THEN tools
    ELSE IF CorpusStatus(store, tool_configs[i]) = "error" THEN tools
    ELSE load_loop_stops_at_error(
             load_one_tool(tools, pr_id, store, tool_configs[i]),
             pr_id, store, i + 1)

RECURSIVE load_loop(_, _, _, _)
load_loop(tools, pr_id, store, i) ==
    IF i > Len(tool_configs) THEN tools
    ELSE load_loop(load_one_tool(tools, pr_id, store, tool_configs[i]),
                   pr_id, store, i + 1)

\* agent.py:36-198 against a given state of indexes/<pr_id>
load_tools(pr_id, store) ==
    IF ~store.dir THEN <<>>
    ELSE IF ~store.client THEN <<>>
    ELSE load_loop(<<>>, pr_id, store, 1)

\* agent.py:36-198
load_query_engine_tools(pr_id) == load_tools(pr_id, IndexStore[pr_id])

\* review_tool.py:121-199: the start_review tool; its sub-agent gets only the
\* tools named search_code / search_requirements (review_tool.py:133-136).
IsReviewSubTool(tool) == tool.name \in {"search_code", "search_requirements"}

create_review_tool_unfiltered(tools, pr_id) ==
    [name |-> "start_review", kind |-> "review",
     collection |-> pr_id, response_mode |-> "none",
     pr_id |-> pr_id, sub_tools |-> tools]

create_review_tool(tools, pr_id) ==
    [name |-> "start_review", kind |-> "review",
     collection |-> pr_id, response_mode |-> "none",
     pr_id |-> pr_id, sub_tools |-> SelectSeq(tools, IsReviewSubTool)]

None == [id |-> 0, pr_id |-> "", mode |-> "", tools |-> <<>>]

\* agent.py:203-318.  id is the identity of the new ReActAgent object.
create_agent_always_review(pr_id, mode, id) ==
    LET query_engine_tools == load_query_engine_tools(pr_id) IN
    IF query_engine_tools = <<>> THEN None
    ELSE IF mode \notin ValidModes THEN None
    ELSE [id |-> id, pr_id |-> pr_id, mode |-> mode,
          tools |-> Append(query_engine_tools,
                           create_review_tool(query_engine_tools, pr_id))]

\* agent.py:207-318: create_agent from the loaded tools on.
create_agent_from_without_tools_check(query_engine_tools, pr_id, mode, id) ==
    LET tools == IF mode = "co_reviewer"
                 THEN Append(query_engine_tools,
                             create_review_tool(query_engine_tools, pr_id))
                 ELSE query_engine_tools
    IN IF mode \notin ValidModes THEN None
       ELSE [id |-> id, pr_id |-> pr_id, mode |-> mode, tools |-> tools]

create_agent_from_with_debug_tool(query_engine_tools, pr_id, mode, id) ==
    IF query_engine_tools = <<>> THEN None
    ELSE LET debug_tool == [name |-> "debug_info", kind |-> "debug",
                            collection |-> "", response_mode |-> "none",
                            pr_id |-> pr_id, sub_tools |-> <<>>]
             with_debug == Append(query_engine_tools, debug_tool)
             tools == IF mode = "co_reviewer"
                      THEN Append(with_debug,
                                  create_review_tool(with_debug, pr_id))
                      ELSE with_debug
         IN IF mode \notin ValidModes THEN None
            ELSE [id |-> id, pr_id |-> pr_id, mode |-> mode, tools |-> tools]

create_agent_from(query_engine_tools, pr_id, mode, id) ==
    IF query_engine_tools = <<>> THEN None
    ELSE LET tools == IF mode = "co_reviewer"
                      THEN Append(query_engine_tools,
                                  create_review_tool(query_engine_tools, pr_id))
                      ELSE query_engine_tools
         IN IF mode \notin ValidModes THEN None
            ELSE [id |-> id, pr_id |-> pr_id, mode |-> mode, tools |-> tools]

create_agent(pr_id, mode, id) ==
    create_agent_from(load_query_engine_tools(pr_id), pr_id, mode, id)

(***************************************************************************)
(* Calling a tool.  A text built by an f-string or by + is the sequence of *)
(* its parts, in order.  The outcome of a call records whether the         *)
(* callable raised, the text returned, the number of retrieval/synthesis   *)
(* calls made, and for start_review whether its sub-loop ran and with      *)
(* which tools.                                                            *)
(***************************************************************************)
ToolResult(raised, text, retrievals, subloop_ran, subloop_tools) ==
    [raised |-> raised, text |-> text, retrievals |-> retrievals,
     subloop_ran |-> subloop_ran, subloop_tools |-> subloop_tools]

NoToolResult == ToolResult(FALSE, <<>>, 0, FALSE, <<>>)

\* The value of the loop variable `config` (agent.py:116) once the loop is
\* over.  empty_collection_func reads the variable when it is called, which
\* is after load_query_engine_tools has returned.
config_after_loop == tool_configs[Len(tool_configs)]

no_data_sentence == ") is empty. No data is available for this tool."

\* agent.py:128-129
empty_collection_func(input_text, tool) ==
    LET config == config_after_loop
    IN ToolResult(FALSE,
                  <<"The ", config.name, " collection (",
                    collection_name(tool.pr_id, config), no_data_sentence>>,
                  0, FALSE, <<>>)

\* agent.py:162-187: the query engine retrieves from its collection and
\* synthesizes an answer.
query_engine_call(input_text, tool) ==
    ToolResult(FALSE, <<"answer synthesized from ", tool.collection>>,
               1, FALSE, <<>>)

\* review_tool.py:183-184
relay_instruction ==
    "The following is the compiled code review. Return it directly ..."
review_separator == "\n\n---\n\n"
review_error_prefix == "Error generating review: "

\* review_tool.py:138-188.  payload: is data/<pr_id>/pr_data/pr.json there
\* (pr_data.py:24-25 raises FileNotFoundError otherwise); subloop: does
\* review_agent.chat return ("final") or raise ("raises"); report: the text
\* of the sub-loop's response.
generate_review_without_try(query, tool, payload, subloop, report) ==
    IF payload = "absent"
    THEN ToolResult(TRUE, <<>>, 0, FALSE, <<>>)
    ELSE IF subloop = "raises"
    THEN ToolResult(TRUE, <<>>, 0, TRUE, tool.sub_tools)
    ELSE ToolResult(FALSE, <<relay_instruction, review_separator, report>>,
                    0, TRUE, tool.sub_tools)

generate_review_rewrites_report(query, tool, payload, subloop, report) ==
    IF payload = "absent"
    THEN ToolResult(FALSE, <<review_error_prefix, "PR data file not found">>,
                    0, FALSE, <<>>)
    ELSE IF subloop = "raises"
    THEN ToolResult(FALSE, <<review_error_prefix, "sub-loop failed">>,
                    0, TRUE, tool.sub_tools)
    ELSE ToolResult(FALSE,
                    <<relay_instruction, review_separator, "summary of ",
                      report>>,
                    0, TRUE, tool.sub_tools)

generate_review(query, tool, payload, subloop, report) ==
    IF payload = "absent"
    THEN ToolResult(FALSE, <<review_error_prefix, "PR data file not found">>,
                    0, FALSE, <<>>)
    ELSE IF subloop = "raises"
    THEN ToolResult(FALSE, <<review_error_prefix, "sub-loop failed">>,
                    0, TRUE, tool.sub_tools)
    ELSE ToolResult(FALSE, <<relay_instruction, review_separator, report>>,
                    0, TRUE, tool.sub_tools)

\* The callable registered for a tool (agent.py:131-135, 181-187;
\* review_tool.py:191-199).
call_tool(tool, input_text, payload, subloop, report) ==
    CASE tool.kind = "empty_stub"   -> empty_collection_func(input_text, tool)
      [] tool.kind = "query_engine" -> query_engine_call(input_text, tool)
      [] OTHER -> generate_review(input_text, tool, payload, subloop, report)

(***************************************************************************)
(* Session management, agent.py:320-374                                    *)
(***************************************************************************)
\* agent.py:339  `session_id if session_id else pr_id`
session_key(pr_id, session_id) ==
    IF session_id # NoSessionId /\ session_id # "" THEN session_id ELSE pr_id

\* agent.py:326-351.  The maps after the call and the value returned.
get_agent_for_pr_rebuild_on_mode(sessions, history, pr_id, mode, session_id, id) ==
    LET key == session_key(pr_id, session_id)
        fresh == key \notin DOMAIN sessions
                 \/ (sessions[key] # None /\ sessions[key].mode # mode)
        sessions1 == IF fresh
                     THEN (key :> create_agent(pr_id, mode, id)) @@ sessions
                     ELSE sessions
        history1  == IF fresh THEN (key :> <<>>) @@ history ELSE history
    IN [agent_sessions |-> sessions1, chat_history |-> history1,
        agent |-> sessions1[key]]

get_agent_for_pr_without_check(sessions, history, pr_id, mode, session_id, id) ==
    LET key == session_key(pr_id, session_id)
        sessions1 == (key :> create_agent(pr_id, mode, id)) @@ sessions
        history1  == (key :> <<>>) @@ history
    IN [agent_sessions |-> sessions1, chat_history |-> history1,
        agent |-> sessions1[key]]

get_agent_for_pr(sessions, history, pr_id, mode, session_id, id) ==
    LET key == session_key(pr_id, session_id)
        sessions1 == IF key \notin DOMAIN sessions
                     THEN (key :> create_agent(pr_id, mode, id)) @@ sessions
                     ELSE sessions
        history1  == IF key \notin DOMAIN sessions
                     THEN (key :> <<>>) @@ history
                     ELSE history
    IN [agent_sessions |-> sessions1, chat_history |-> history1,
        agent |-> sessions1[key]]

\* agent.py:353-363
get_chat_history(history, session_id) ==
    IF session_id \in DOMAIN history THEN history[session_id] ELSE <<>>

\* agent.py:365-374
add_to_chat_history_shared(history, session_id, message) ==
    [k \in DOMAIN history |-> Append(history[k], message)]

add_to_chat_history(history, session_id, message) ==
    IF session_id \in DOMAIN history
    THEN [history EXCEPT ![session_id] = Append(@, message)]
    ELSE history

(***************************************************************************)
(* chat_endpoint, main.py:55-136                                           *)
(***************************************************************************)
\* main.py:64  str(uuid.uuid4()): a fresh id, distinct per request
uuid4(turn) == "u" \o ToString(turn)

\* Session ids the server has generated and returned to a client so far.
IssuedSessionIds == {uuid4(t) : t \in 1..arrivals} \cap DOMAIN agent_sessions

\* A transcript entry.  role and content are the dict the code appends;
\* turn and via record which request appended it and the session id that
\* request ran under.
Message(role, content, turn, via) ==
    [role |-> role, content |-> content, turn |-> turn, via |-> via]

\* main.py:96-106
instruction_prefix == "Follow the system prompts strictly ... :\n\n"
agent_query(query) ==
    IF query = "start review" THEN query ELSE instruction_prefix \o query

\* str(response) of the agent's reasoning loop: text grounded in the corpora
\* of the ChangeSet the agent was built for.
answer_text(agent) == "answer from " \o agent.pr_id

NoResponse ==
    [turn |-> 0, status |-> 0, answer |-> "", session_id |-> "", pr_id |-> "",
     mode |-> "", query |-> "", agent |-> None, session_was_failed |-> FALSE]

Response(turn, status, answer, session_id, pr_id, mode, query, agent, wasFailed) ==
    [turn |-> turn, status |-> status, answer |-> answer,
     session_id |-> session_id, pr_id |-> pr_id, mode |-> mode,
     query |-> query, agent |-> agent, session_was_failed |-> wasFailed]

\* The arguments and surroundings of one tool call.
CallArgs(input_text, payload, subloop, report) ==
    [input_text |-> input_text, payload |-> payload, subloop |-> subloop,
     report |-> report]

NoCall == CallArgs("", "", "", "")

RegistryRecord(pc, pr_id, mode, store, tools, agent, called, args, result) ==
    [pc |-> pc, pr_id |-> pr_id, mode |-> mode, store |-> store,
     tools |-> tools, agent |-> agent, called |-> called, args |-> args,
     result |-> result]

RegistryIdle ==
    RegistryRecord("idle", "", "", IndexStore["Z"], <<>>, None, 0, NoCall,
                   NoToolResult)

\* One run of agent.achat (main.py:107).  pc: "idle" before the call,
\* "reasoning" in the agent's loop, "review" inside review_agent.chat
\* (review_tool.py:177), "final" when achat has returned, "error" when it
\* has raised.  steps / review_steps: iterations used by the agent and by
\* the review agent of the current start_review call; depth: how many
\* review agents are running inside one another.
LoopRecord(pc, agent, steps, review_tools, review_steps, depth) ==
    [pc |-> pc, agent |-> agent, steps |-> steps,
     review_tools |-> review_tools, review_steps |-> review_steps,
     depth |-> depth]

LoopIdle == LoopRecord("idle", None, 0, <<>>, 0, 0)

\* The module state after import: both maps empty (agent.py:323-324).
Init ==
    /\ agent_sessions = <<>>
    /\ chat_history = <<>>
    /\ suspended = <<>>
    /\ arrivals = 0
    /\ created = 0
    /\ last = NoResponse
    /\ log_failed = FALSE
    /\ registry = RegistryIdle
    /\ turn_loop = LoopIdle

\* main.py:59-111: from the arrival of a request to the first suspension
\* (await agent.achat) or to the error response.
chat_endpoint(request_session_id, pr_id, mode, query) ==
    /\ arrivals < MaxRequests
    /\ LET turn == arrivals + 1
           session_id == IF request_session_id = NoSessionId
                         THEN uuid4(turn) ELSE request_session_id
           key == session_key(pr_id, session_id)
           wasFailed == key \in DOMAIN agent_sessions
                        /\ agent_sessions[key] = None
           got == get_agent_for_pr(agent_sessions, chat_history,
                                   pr_id, mode, session_id, created + 1)
           agent == got.agent
           history1 == add_to_chat_history(got.chat_history, session_id,
                           Message("user", query, turn, session_id))
       IN /\ arrivals' = turn
          /\ log_failed' = FALSE
          /\ registry' = registry
          /\ turn_loop' = turn_loop
          /\ agent_sessions' = got.agent_sessions
          /\ created' = IF key \notin DOMAIN agent_sessions /\ agent # None
                        THEN created + 1 ELSE created
          /\ IF agent = None
             THEN \* main.py:85-87
                  /\ chat_history' = got.chat_history
                  /\ suspended' = suspended
                  /\ last' = Response(turn, 500, "", session_id, pr_id, mode,
                                      query, None, wasFailed)
             ELSE IF mode \in ValidModes
             THEN \* main.py:102-107
                  /\ chat_history' = history1
                  /\ suspended' = (turn :> [session_id |-> session_id,
                                            pr_id |-> pr_id, mode |-> mode,
                                            query |-> query,
                                            sent |-> agent_query(query),
                                            agent |-> agent,
                                            session_was_failed |-> wasFailed])
                                  @@ suspended
                  /\ last' = last
             ELSE \* main.py:110-111 raises HTTPException(400), which the
                  \* handler at main.py:132-136 catches
                  /\ chat_history' = add_to_chat_history(history1, session_id,
                         Message("system", "Error processing request",
                                 turn, session_id))
                  /\ suspended' = suspended
                  /\ last' = Response(turn, 500, "", session_id, pr_id, mode,
                                      query, agent, wasFailed)

RemoveKey(f, k) == [x \in DOMAIN f \ {k} |-> f[x]]

\* main.py:107-130: agent.achat returned; the rest of the handler.
achat_returns(turn) ==
    /\ turn \in DOMAIN suspended
    /\ LET r == suspended[turn]
           response_text == answer_text(r.agent)
       IN /\ chat_history' = add_to_chat_history(chat_history, r.session_id,
                 Message("assistant", response_text, turn, r.session_id))
          /\ last' = Response(turn, 200, response_text, r.session_id, r.pr_id,
                              r.mode, r.query, r.agent, r.session_was_failed)
    /\ suspended' = RemoveKey(suspended, turn)
    /\ log_failed' = FALSE
    /\ UNCHANGED <<agent_sessions, arrivals, created, registry, turn_loop>>

\* main.py:132-136: agent.achat raised.
achat_raises(turn) ==
    /\ turn \in DOMAIN suspended
    /\ LET r == suspended[turn]
       IN /\ chat_history' = add_to_chat_history(chat_history, r.session_id,
                 Message("system", "Error processing request",
                         turn, r.session_id))
          /\ last' = Response(turn, 500, "", r.session_id, r.pr_id,
                              r.mode, r.query, r.agent, r.session_was_failed)
    /\ suspended' = RemoveKey(suspended, turn)
    /\ log_failed' = FALSE
    /\ UNCHANGED <<agent_sessions, arrivals, created, registry, turn_loop>>

\* The server when no write of persist_log fails: CHAT_LOGGING_ENABLED is
\* unset (persist_log returns at main.py:74-75) or every write succeeds.
Next ==
    \/ \E sid \in ClientSessionIds \cup {NoSessionId} \cup IssuedSessionIds,
          pr_id \in PrIds, mode \in Modes, query \in Queries :
            chat_endpoint(sid, pr_id, mode, query)
    \/ \E turn \in 1..MaxRequests : achat_returns(turn)
    \/ \E turn \in 1..MaxRequests : achat_raises(turn)

Spec == Init /\ [][Next]_vars

TypeOK ==
    /\ DOMAIN agent_sessions = DOMAIN chat_history
    /\ arrivals \in 0..MaxRequests
    /\ created \in 0..arrivals

(***************************************************************************)
(* Auxiliary definitions for the properties                                *)
(***************************************************************************)
ToolNames(agent) == {agent.tools[i].name : i \in 1..Len(agent.tools)}
ReviewToolCount(agent) ==
    Cardinality({i \in 1..Len(agent.tools) : agent.tools[i].name = "start_review"})
Loadable(pr_id) == load_query_engine_tools(pr_id) # <<>>

\* Requests that have been handed an agent by get_agent_for_pr: the ones
\* suspended in the agent call and the one that finished last.
Served ==
    {suspended[t] : t \in DOMAIN suspended}
      \cup (IF last.turn > 0 /\ last.agent # None
            THEN {[session_id |-> last.session_id, pr_id |-> last.pr_id,
                   mode |-> last.mode, query |-> last.query,
                   sent |-> agent_query(last.query), agent |-> last.agent,
                   session_was_failed |-> last.session_was_failed]}
            ELSE {})

\* The request that finished last was refused because get_agent_for_pr
\* returned None (main.py:85-87), and no request has arrived since.
LastFailedToInitialize ==
    /\ last.turn > 0 /\ last.turn = arrivals
    /\ last.status = 500 /\ last.agent = None

(***************************************************************************)
(* C1.  A request carrying a session id already bound to ChangeSet X but   *)
(* with changeset id Y is served by an Orchestrator built over Y's         *)
(* corpora: every request running under a client-chosen or generated       *)
(* session id is served by an agent of the request's own pr_id.            *)
(***************************************************************************)
C1_ChangesetSwitchRebinds ==
    \A r \in Served :
        r.session_id # "" => r.agent.pr_id = r.pr_id

(***************************************************************************)
(* C2.  When construction of the Orchestrator fails in a request, the      *)
(* session key of that request is afterwards in neither agent_sessions nor *)
(* chat_history.                                                           *)
(***************************************************************************)
C2_FailedConstructionLeavesNoState ==
    (LastFailedToInitialize /\ ~last.session_was_failed)
        => LET key == session_key(last.pr_id, last.session_id)
           IN key \notin DOMAIN agent_sessions /\ key \notin DOMAIN chat_history

(***************************************************************************)
(* C3.  A construction failure is terminal for that request only: a later  *)
(* request on the same session with a loadable ChangeSet and a valid mode  *)
(* is not refused for lack of an agent.                                    *)
(***************************************************************************)
C3_FailureIsPerRequest ==
    (last.turn > 0 /\ last.session_was_failed
       /\ Loadable(last.pr_id) /\ last.mode \in ValidModes)
        => ~(last.status = 500 /\ last.agent = None)

(***************************************************************************)
(* C4.  Session isolation: every entry of the transcript returned by       *)
(* get_chat_history for session id B was appended by a request that ran    *)
(* under session id B.                                                     *)
(***************************************************************************)
C4_SessionIsolation ==
    \A b \in DOMAIN chat_history \cup ClientSessionIds :
        LET transcript == get_chat_history(chat_history, b)
        IN \A i \in 1..Len(transcript) : transcript[i].via = b

\* Two distinct sessions on the same ChangeSet and mode, each with entries.
C4_Witness ==
    \E a, b \in DOMAIN chat_history :
        /\ a # b
        /\ agent_sessions[a] # None /\ agent_sessions[b] # None
        /\ agent_sessions[a].pr_id = agent_sessions[b].pr_id
        /\ agent_sessions[a].mode = agent_sessions[b].mode
        /\ Len(chat_history[a]) > 0 /\ Len(chat_history[b]) > 0

(***************************************************************************)
(* C5.  An Orchestrator is owned by one session: no agent instance is      *)
(* handed to requests of two distinct session ids.                         *)
(***************************************************************************)
C5_ExclusiveOwnership ==
    \A r1, r2 \in Served :
        r1.agent.id = r2.agent.id => r1.session_id = r2.session_id

(***************************************************************************)
(* C6.  Session-serial processing: the entries of two turns are never      *)
(* interleaved on one transcript; between two entries of one turn there is *)
(* no entry of another turn.                                               *)
(***************************************************************************)
C6_NoInterleavedTurns ==
    \A k \in DOMAIN chat_history :
        \A i, j, l \in 1..Len(chat_history[k]) :
            (i < j /\ j < l /\ chat_history[k][i].turn = chat_history[k][l].turn)
                => chat_history[k][j].turn = chat_history[k][i].turn

(***************************************************************************)
(* C7.  Within one session the transcript entries are in request-arrival   *)
(* order: every entry of an earlier request precedes every entry of a      *)
(* later one.                                                              *)
(***************************************************************************)
C7_ArrivalOrder ==
    \A k \in DOMAIN chat_history :
        \A i, j \in 1..Len(chat_history[k]) :
            i < j => chat_history[k][i].turn <= chat_history[k][j].turn

(***************************************************************************)
(* C8.  create_agent for a valid mode yields a tool list that contains     *)
(* start_review if and only if the mode is co_reviewer.                    *)
(***************************************************************************)
C8_ReviewToolIffCoReviewer ==
    \A k \in DOMAIN agent_sessions :
        agent_sessions[k] # None =>
            ("start_review" \in ToolNames(agent_sessions[k])
                <=> agent_sessions[k].mode = "co_reviewer")

\* One agent built in each mode.
C8_Witness ==
    \E a, b \in DOMAIN agent_sessions :
        /\ agent_sessions[a] # None /\ agent_sessions[b] # None
        /\ agent_sessions[a].mode = "co_reviewer"
        /\ agent_sessions[b].mode = "interactive_assistant"
        /\ Len(agent_sessions[b].tools) > 0

(***************************************************************************)
(* C9.  A turn whose request carries mode interactive_assistant runs on an *)
(* agent whose tools do not include start_review.                          *)
(***************************************************************************)
C9_InteractiveHasNoReviewTool ==
    \A r \in Served :
        r.mode = "interactive_assistant"
            => "start_review" \notin ToolNames(r.agent)

(***************************************************************************)
(* C10.  A turn whose request carries mode co_reviewer runs on an agent    *)
(* with exactly one start_review tool, also when the session was created   *)
(* in interactive_assistant mode.                                          *)
(***************************************************************************)
C10_CoReviewerHasOneReviewTool ==
    \A r \in Served :
        r.mode = "co_reviewer" => ReviewToolCount(r.agent) = 1

(***************************************************************************)
(* C11.  A mode-only switch (same session id, same changeset id, other     *)
(* valid mode) does not replace the Orchestrator: get_agent_for_pr returns *)
(* the instance already stored and changes neither map, and every request  *)
(* in progress holds the instance stored under its session key.            *)
(***************************************************************************)
C11_ModeSwitchKeepsInstance ==
    /\ \A sid \in ClientSessionIds \cup IssuedSessionIds, pr_id \in PrIds,
          mode \in ValidModes :
          LET key == session_key(pr_id, sid)
              got == get_agent_for_pr(agent_sessions, chat_history,
                                      pr_id, mode, sid, created + 1)
          IN (/\ key \in DOMAIN agent_sessions
              /\ agent_sessions[key] # None
              /\ agent_sessions[key].pr_id = pr_id
              /\ agent_sessions[key].mode # mode)
                 => /\ got.agent = agent_sessions[key]
                    /\ got.agent_sessions = agent_sessions
                    /\ got.chat_history = chat_history
    /\ \A t \in DOMAIN suspended :
          suspended[t].agent
              = agent_sessions[session_key(suspended[t].pr_id,
                                           suspended[t].session_id)]

\* A request in a mode other than the one its session's agent was built in,
\* on the same ChangeSet, is being served by that agent.
C11_Witness ==
    \E t \in DOMAIN suspended :
        LET r == suspended[t]
            key == session_key(r.pr_id, r.session_id)
        IN /\ r.mode # r.agent.mode
           /\ r.pr_id = r.agent.pr_id
           /\ r.agent.id = agent_sessions[key].id
           /\ \E i \in 1..Len(chat_history[key]) : chat_history[key][i].turn < t

(***************************************************************************)
(* Tool registry construction and tool calls over every state of the       *)
(* index store: create_agent is applied once to a ChangeSet whose index    *)
(* directory, Chroma client and three collections are in any combination   *)
(* of states, and then one of the agent's tools is called once.            *)
(***************************************************************************)
CorpusStatuses == {"loaded", "empty", "error"}
Stores ==
    [dir : BOOLEAN, client : BOOLEAN, pr_data : CorpusStatuses,
     source_code : CorpusStatuses, pr_feature : CorpusStatuses]
RegistryPrIds == {"X", "pr_data_7"}
Payloads == {"present", "absent"}
SubloopOutcomes == {"final", "raises"}
Reports == {"### PR Summary", "### Overall Assessment"}

RegistryInit ==
    /\ agent_sessions = <<>>
    /\ chat_history = <<>>
    /\ suspended = <<>>
    /\ arrivals = 0
    /\ created = 0
    /\ last = NoResponse
    /\ log_failed = FALSE
    /\ turn_loop = LoopIdle
    /\ \E pr_id \in RegistryPrIds, mode \in Modes, store \in Stores :
          registry = RegistryRecord("start", pr_id, mode, store, <<>>, None,
                                    0, NoCall, NoToolResult)

\* agent.py:203-318 create_agent(pr_id, mode)
registry_create_agent ==
    /\ registry.pc = "start"
    /\ LET query_engine_tools == load_tools(registry.pr_id, registry.store)
           agent == create_agent_from(query_engine_tools, registry.pr_id,
                                      registry.mode, 1)
       IN registry' = [registry EXCEPT
                          !.pc = IF agent = None THEN "failed" ELSE "created",
                          !.tools = query_engine_tools,
                          !.agent = agent]
    /\ UNCHANGED <<agent_sessions, chat_history, suspended, arrivals, created,
                   last, log_failed, turn_loop>>

\* The reasoning loop calls the i-th tool of the agent.
registry_call_tool(i, input_text, payload, subloop, report) ==
    /\ registry.pc = "created"
    /\ i \in 1..Len(registry.agent.tools)
    /\ registry' = [registry EXCEPT
                       !.pc = "called",
                       !.called = i,
                       !.args = CallArgs(input_text, payload, subloop, report),
                       !.result = call_tool(registry.agent.tools[i], input_text,
                                            payload, subloop, report)]
    /\ UNCHANGED <<agent_sessions, chat_history, suspended, arrivals, created,
                   last, log_failed, turn_loop>>

RegistryNext ==
    \/ registry_create_agent
    \/ \E i \in 1..4, input_text \in Queries, payload \in Payloads,
          subloop \in SubloopOutcomes, report \in Reports :
            registry_call_tool(i, input_text, payload, subloop, report)

SpecRegistry == RegistryInit /\ [][RegistryNext]_vars

\* Auxiliary definitions for the registry properties
SeqNames(tools) == [i \in 1..Len(tools) |-> tools[i].name]
SeqNameSet(tools) == {tools[i].name : i \in 1..Len(tools)}
CorpusToolNames == {tool_configs[i].name : i \in 1..Len(tool_configs)}
StoreOpens(store) == store.dir /\ store.client
RegistryBuilt == registry.pc \in {"failed", "created", "called"}
CalledTool == registry.agent.tools[registry.called]
ConfigOf(name) ==
    CHOOSE c \in {tool_configs[i] : i \in 1..Len(tool_configs)} : c.name = name
ReviewToolsOf(agent) ==
    {agent.tools[i] : i \in {j \in 1..Len(agent.tools) :
                                 agent.tools[j].name = "start_review"}}

(***************************************************************************)
(* C12.  Tool isolation for review: whatever corpora loaded, the tools     *)
(* given to the sub-loop of start_review are among search_code and         *)
(* search_requirements; search_pr and start_review are never among them,   *)
(* neither when the tool is created nor when its sub-loop runs.            *)
(***************************************************************************)
C12_ReviewToolIsolation ==
    /\ (registry.pc \in {"created", "called"}) =>
          \A review \in ReviewToolsOf(registry.agent) :
              /\ SeqNameSet(review.sub_tools)
                    \subseteq {"search_code", "search_requirements"}
              /\ \A i \in 1..Len(review.sub_tools) :
                    review.sub_tools[i] \in
                        {registry.tools[j] : j \in 1..Len(registry.tools)}
    /\ (registry.pc = "called" /\ registry.result.subloop_ran) =>
          SeqNameSet(registry.result.subloop_tools)
              \subseteq {"search_code", "search_requirements"}

\* A review ran its sub-loop on an agent that also has the diff adapter.
C12_Witness ==
    /\ registry.pc = "called"
    /\ CalledTool.name = "start_review"
    /\ registry.result.subloop_ran
    /\ "search_pr" \in SeqNameSet(registry.agent.tools)
    /\ SeqNameSet(registry.result.subloop_tools)
          = {"search_code", "search_requirements"}

(***************************************************************************)
(* C13.  If no adapter can be constructed for a ChangeSet, no agent is     *)
(* created: create_agent returns None, and every agent that is created has *)
(* at least one corpus adapter among its tools, in either mode.            *)
(***************************************************************************)
C13_NoToollessAgent ==
    RegistryBuilt =>
        /\ (registry.tools = <<>>) => (registry.agent = None)
        /\ (~StoreOpens(registry.store)
              \/ \A i \in 1..Len(tool_configs) :
                    CorpusStatus(registry.store, tool_configs[i]) = "error")
              => registry.agent = None
        /\ (registry.agent # None) =>
              SeqNameSet(registry.agent.tools) \cap CorpusToolNames # {}

\* All three corpora failed for a co_reviewer request and no agent was made.
C13_Witness ==
    /\ registry.pc = "failed"
    /\ registry.mode = "co_reviewer"
    /\ StoreOpens(registry.store)
    /\ \A i \in 1..Len(tool_configs) :
          CorpusStatus(registry.store, tool_configs[i]) = "error"

(***************************************************************************)
(* C14.  If some but not all adapters fail to load, the registry proceeds  *)
(* with the rest: the tool list holds exactly the adapters whose           *)
(* collection opened, in the order diff, code, requirements; a failure of  *)
(* one corpus does not keep a later one from being loaded.                 *)
(***************************************************************************)
C14_PartialDegradation ==
    (RegistryBuilt /\ StoreOpens(registry.store)) =>
        /\ \A i \in 1..Len(tool_configs) :
              (tool_configs[i].name \in SeqNameSet(registry.tools))
                 <=> (CorpusStatus(registry.store, tool_configs[i]) # "error")
        /\ \A a, b \in 1..Len(registry.tools) :
              a < b =>
                 \E i, j \in 1..Len(tool_configs) :
                    /\ i < j
                    /\ tool_configs[i].name = registry.tools[a].name
                    /\ tool_configs[j].name = registry.tools[b].name

\* The diff corpus failed and both later corpora were still loaded.
C14_Witness ==
    /\ registry.pc = "created"
    /\ registry.store.pr_data = "error"
    /\ SeqNames(registry.tools) = <<"search_code", "search_requirements">>

(***************************************************************************)
(* C15 as stated.  When a corpus cannot be opened or queried while at      *)
(* least one other corpus loads, the affected adapter is still in the      *)
(* registry, as an empty stub tool.                                        *)
(***************************************************************************)
C15_UnavailableCorpusBecomesStub ==
    (RegistryBuilt /\ StoreOpens(registry.store)) =>
        \A i \in 1..Len(tool_configs) :
            (/\ CorpusStatus(registry.store, tool_configs[i]) = "error"
             /\ \E j \in 1..Len(tool_configs) :
                   j # i /\ CorpusStatus(registry.store, tool_configs[j]) # "error")
               => \E a \in 1..Len(registry.tools) :
                     /\ registry.tools[a].name = tool_configs[i].name
                     /\ registry.tools[a].kind = "empty_stub"

(***************************************************************************)
(* C15 amended.  When a corpus cannot be opened or queried while at least  *)
(* one other corpus loads, the registry is still built from the others and *)
(* the affected adapter is left out of it; an empty stub tool is           *)
(* registered exactly for a collection that opens and holds zero items.    *)
(***************************************************************************)
C15_UnavailableCorpusIsOmitted ==
    (RegistryBuilt /\ StoreOpens(registry.store)) =>
        /\ \A i \in 1..Len(tool_configs) :
              (/\ CorpusStatus(registry.store, tool_configs[i]) = "error"
               /\ \E j \in 1..Len(tool_configs) :
                     j # i /\ CorpusStatus(registry.store, tool_configs[j]) # "error")
                 => /\ tool_configs[i].name \notin SeqNameSet(registry.tools)
                    /\ registry.tools # <<>>
                    /\ (registry.mode \in ValidModes => registry.agent # None)
        /\ \A a \in 1..Len(registry.tools) :
              (registry.tools[a].kind = "empty_stub")
                 <=> (CorpusStatus(registry.store,
                                   ConfigOf(registry.tools[a].name)) = "empty")

\* An agent was built although the requirements corpus could not be opened.
C15_Witness ==
    /\ registry.pc = "created"
    /\ registry.store.pr_feature = "error"
    /\ registry.store.source_code = "empty"
    /\ Len(registry.tools) = 2

(***************************************************************************)
(* C16.  No fabrication on an empty corpus: the adapter of a collection    *)
(* that exists and holds zero items returns, whatever the query, the same  *)
(* non-empty text ending in "No data is available for this tool." and      *)
(* makes no retrieval or synthesis call.                                   *)
(***************************************************************************)
C16_NoFabricationOnEmptyCorpus ==
    (/\ registry.pc = "called"
     /\ CalledTool.name \in CorpusToolNames
     /\ CorpusStatus(registry.store, ConfigOf(CalledTool.name)) = "empty")
       => /\ ~registry.result.raised
          /\ registry.result.text # <<>>
          /\ registry.result.text[Len(registry.result.text)] = no_data_sentence
          /\ \A k \in 1..Len(registry.result.text) :
                registry.result.text[k] # ""
          /\ registry.result.retrievals = 0
          /\ ~registry.result.subloop_ran
          /\ \A q \in Queries :
                call_tool(CalledTool, q, registry.args.payload,
                          registry.args.subloop, registry.args.report).text
                   = registry.result.text

\* The adapter of an empty collection was called next to a populated one.
C16_Witness ==
    /\ registry.pc = "called"
    /\ CalledTool.name = "search_code"
    /\ registry.store.source_code = "empty"
    /\ registry.store.pr_data = "loaded"
    /\ registry.args.input_text = "what changed"

(***************************************************************************)
(* C18.  The callable of start_review never raises: when the payload       *)
(* lookup fails or a step of the sub-loop raises it returns a text that    *)
(* starts with "Error generating review: ", and the sub-loop is not run    *)
(* when the payload lookup failed.                                         *)
(***************************************************************************)
C18_ReviewToolNeverRaises ==
    (registry.pc = "called" /\ CalledTool.name = "start_review") =>
        /\ ~registry.result.raised
        /\ registry.result.text # <<>>
        /\ (registry.args.payload = "absent") =>
              /\ registry.result.text[1] = review_error_prefix
              /\ ~registry.result.subloop_ran
        /\ (registry.args.payload = "present"
              /\ registry.args.subloop = "raises") =>
              registry.result.text[1] = review_error_prefix

\* start_review was called for a ChangeSet without pr.json.
C18_Witness ==
    /\ registry.pc = "called"
    /\ CalledTool.name = "start_review"
    /\ registry.args.payload = "absent"
    /\ registry.result.text[1] = review_error_prefix

(***************************************************************************)
(* The server with CHAT_LOGGING_ENABLED set and a log directory or file    *)
(* that may fail: os.makedirs (main.py:71) or open/write (main.py:77-78)   *)
(* may raise in any request.  persist_log has no exception handler.        *)
(***************************************************************************)
\* main.py:59-81: the request record cannot be written.  The call at
\* main.py:81 is outside the try block, so the handler ends with the
\* exception (an HTTP 500 from the framework) before get_agent_for_pr.
chat_endpoint_log_fails(request_session_id, pr_id, mode, query) ==
    /\ arrivals < MaxRequests
    /\ LET turn == arrivals + 1
           session_id == IF request_session_id = NoSessionId
                         THEN uuid4(turn) ELSE request_session_id
           key == session_key(pr_id, session_id)
           wasFailed == key \in DOMAIN agent_sessions
                        /\ agent_sessions[key] = None
       IN /\ arrivals' = turn
          /\ last' = Response(turn, 500, "", session_id, pr_id, mode, query,
                              None, wasFailed)
    /\ log_failed' = TRUE
    /\ UNCHANGED <<agent_sessions, chat_history, suspended, created, registry, turn_loop>>

\* main.py:107-136: agent.achat returned and the assistant entry was
\* appended (main.py:114); writing the response record raises at
\* main.py:127, inside the try block, so main.py:132-136 appends a system
\* entry and answers 500.
achat_returns_log_fails(turn) ==
    /\ turn \in DOMAIN suspended
    /\ LET r == suspended[turn]
           response_text == answer_text(r.agent)
           history1 == add_to_chat_history(chat_history, r.session_id,
                 Message("assistant", response_text, turn, r.session_id))
       IN /\ chat_history' = add_to_chat_history(history1, r.session_id,
                 Message("system", "Error processing request",
                         turn, r.session_id))
          /\ last' = Response(turn, 500, "", r.session_id, r.pr_id,
                              r.mode, r.query, r.agent, r.session_was_failed)
    /\ suspended' = RemoveKey(suspended, turn)
    /\ log_failed' = TRUE
    /\ UNCHANGED <<agent_sessions, arrivals, created, registry, turn_loop>>

LoggingSessionIds == {"A", NoSessionId}
LoggingPrIds == {"X", "Z"}

NextLogging ==
    \/ \E sid \in LoggingSessionIds, pr_id \in LoggingPrIds, mode \in Modes,
          query \in Queries :
            chat_endpoint(sid, pr_id, mode, query)
    \/ \E sid \in LoggingSessionIds, pr_id \in LoggingPrIds, mode \in Modes,
          query \in Queries :
            chat_endpoint_log_fails(sid, pr_id, mode, query)
    \/ \E turn \in 1..MaxRequests : achat_returns(turn)
    \/ \E turn \in 1..MaxRequests : achat_returns_log_fails(turn)
    \/ \E turn \in 1..MaxRequests : achat_raises(turn)

SpecLogging == Init /\ [][NextLogging]_vars

(***************************************************************************)
(* C17.  A request whose mode is not co_reviewer / interactive_assistant   *)
(* is rejected with no side effects: the step that handles it changes      *)
(* neither agent_sessions (no session created, hence no create_agent call  *)
(* and no corpus loaded) nor chat_history.                                 *)
(***************************************************************************)
C17_InvalidModeHasNoSideEffects ==
    [][(/\ arrivals' = arrivals + 1
        /\ last'.turn = arrivals'
        /\ last'.mode \notin ValidModes)
          => (agent_sessions' = agent_sessions /\ chat_history' = chat_history)]_vars

(***************************************************************************)
(* C20.  Session-log persistence is best-effort: a request whose log write *)
(* failed, and that is otherwise valid (loadable ChangeSet, valid mode,    *)
(* session not left failed), still gets its answer with status 200, and    *)
(* the failure adds no error entry to any transcript.                      *)
(***************************************************************************)
C20_LoggingIsBestEffort ==
    (/\ log_failed
     /\ Loadable(last.pr_id)
     /\ last.mode \in ValidModes
     /\ ~last.session_was_failed)
       => /\ last.status = 200
          /\ \A k \in DOMAIN chat_history :
                \A i \in 1..Len(chat_history[k]) :
                   ~(chat_history[k][i].turn = last.turn
                       /\ chat_history[k][i].role = "system")

(***************************************************************************)
(* C21.  For every request that returns an answer, the transcript of the   *)
(* session id echoed in the response holds the request's user entry and,   *)
(* after it, an assistant entry whose content is the answer; also for the  *)
(* empty session id.                                                       *)
(***************************************************************************)
C21_AnswerIsInTranscript ==
    (last.turn > 0 /\ last.status = 200) =>
        LET transcript == get_chat_history(chat_history, last.session_id)
        IN \E i, j \in 1..Len(transcript) :
              /\ i < j
              /\ transcript[i].turn = last.turn
              /\ transcript[i].role = "user"
              /\ transcript[i].content = last.query
              /\ transcript[j].turn = last.turn
              /\ transcript[j].role = "assistant"
              /\ transcript[j].content = last.answer

(***************************************************************************)
(* C22.  In every turn the system instructions of the reasoning loop are   *)
(* those of the mode carried by the request: a request with mode m is      *)
(* processed by an agent configured with the system prompt of m.           *)
(***************************************************************************)
\* agent.py:286-290
system_prompt_of(mode) ==
    IF mode = "co_reviewer" THEN "SYSTEM_PROMPT_CO_REVIEWER"
    ELSE "SYSTEM_PROMPT_INTERACTIVE_ASSISTANT"

\* agent.py:297, 312-315: the prompt the agent was constructed with
AgentSystemPrompt(agent) == system_prompt_of(agent.mode)

C22_SystemPromptFollowsRequestMode ==
    \A t \in DOMAIN suspended :
        AgentSystemPrompt(suspended[t].agent)
            = system_prompt_of(suspended[t].mode)

(***************************************************************************)
(* C29.  A request that reaches the mode dispatch with an invalid mode     *)
(* (its session already has an agent) is answered with HTTP 400 and adds   *)
(* no error entry to the transcript.                                       *)
(***************************************************************************)
C29_InvalidModeAtDispatchIs400 ==
    (last.turn > 0 /\ last.mode \notin ValidModes /\ last.agent # None) =>
        /\ last.status = 400
        /\ \A k \in DOMAIN chat_history :
              \A i \in 1..Len(chat_history[k]) :
                 ~(chat_history[k][i].turn = last.turn
                     /\ chat_history[k][i].role = "system")

(***************************************************************************)
(* C23.  For every pull-request id, also one that contains "pr_data", the  *)
(* query engine over the diff corpus (search_pr) synthesizes with "refine" *)
(* and those over code and requirements with "tree_summarize".             *)
(***************************************************************************)
C23_ResponseModePerCorpus ==
    (RegistryBuilt /\ registry.agent # None) =>
        \A i \in 1..Len(registry.agent.tools) :
            LET tool == registry.agent.tools[i]
            IN tool.kind = "query_engine" =>
                  tool.response_mode = IF tool.name = "search_pr"
                                       THEN "refine"
                                       ELSE "tree_summarize"

(***************************************************************************)
(* C24.  In every reachable state the tool names of each stored agent are  *)
(* pairwise distinct and drawn from search_pr, search_code,                *)
(* search_requirements and start_review; debug_info is never among them.   *)
(***************************************************************************)
RegisteredToolNames ==
    {"search_pr", "search_code", "search_requirements", "start_review"}

C24_ToolNamesUnique ==
    \A k \in DOMAIN agent_sessions :
        LET tools == agent_sessions[k].tools
        IN /\ \A i, j \in 1..Len(tools) :
                 i # j => tools[i].name # tools[j].name
           /\ \A i \in 1..Len(tools) :
                 /\ tools[i].name \in RegisteredToolNames
                 /\ tools[i].name # "debug_info"

\* Two requests were handled and a co_reviewer agent with all four tools
\* is stored.
C24_Witness ==
    /\ arrivals = 2
    /\ \E k \in DOMAIN agent_sessions :
          /\ agent_sessions[k] # None
          /\ Len(agent_sessions[k].tools) = 4
          /\ agent_sessions[k].tools[4].name = "start_review"

(***************************************************************************)
(* C26.  When the review tool succeeds, its result is the fixed relay      *)
(* instruction, the separator, and then the sub-loop's response, unchanged,*)
(* as the last part.                                                       *)
(***************************************************************************)
C26_ReviewResultRelaysReport ==
    (/\ registry.pc = "called"
     /\ CalledTool.name = "start_review"
     /\ registry.args.payload = "present"
     /\ registry.args.subloop = "final") =>
        /\ registry.result.text
              = <<relay_instruction, review_separator, registry.args.report>>
        /\ registry.result.text[Len(registry.result.text)]
              = registry.args.report

\* start_review was called, the payload was there and the sub-loop
\* returned the report "### Overall Assessment".
C26_Witness ==
    /\ registry.pc = "called"
    /\ CalledTool.name = "start_review"
    /\ registry.args.payload = "present"
    /\ registry.args.subloop = "final"
    /\ registry.args.report = "### Overall Assessment"
    /\ ~registry.result.raised

(***************************************************************************)
(* C30.  The message of each empty-collection stub names the tool it is    *)
(* registered under and that tool's own collection.                        *)
(***************************************************************************)
C30_StubNamesItsOwnCorpus ==
    (registry.pc = "called" /\ CalledTool.kind = "empty_stub") =>
        /\ registry.result.text[2] = CalledTool.name
        /\ registry.result.text[4] = CalledTool.collection

(***************************************************************************)
(* C27.  No step removes a session from the registry, and no step changes  *)
(* a transcript other than by appending to it: every session key stays in  *)
(* agent_sessions and chat_history, with the same agent, and its old       *)
(* transcript is a prefix of the new one.                                  *)
(***************************************************************************)
IsPrefix(s, t) == Len(s) <= Len(t) /\ SubSeq(t, 1, Len(s)) = s

SessionsKeptAndAppendOnly ==
    \A k \in DOMAIN agent_sessions :
        /\ k \in DOMAIN agent_sessions'
        /\ agent_sessions'[k] = agent_sessions[k]
        /\ k \in DOMAIN chat_history'
        /\ IsPrefix(chat_history[k], chat_history'[k])

C27_SessionsNeverRemoved == [][SessionsKeptAndAppendOnly]_vars

\* A session went through two requests: the second one, with the other
\* mode, found it with a transcript and extended it.
C27_Witness ==
    /\ arrivals = 2
    /\ \E k \in DOMAIN chat_history :
          /\ Len(chat_history[k]) >= 3
          /\ chat_history[k][1].turn = 1
          /\ chat_history[k][Len(chat_history[k])].turn = 2
          /\ agent_sessions[k].mode # last.mode
          /\ last.turn = 2

review_agent_max_iterations == 30

\* agent.py:307
agent_max_iterations_of_review_agent == review_agent_max_iterations

agent_max_iterations == 10

LoopPrIds == {"X"}
LoopOutcomes == {"final", "error"}

\* main.py:83, 107: agent.achat(query) is called on the agent of the session.
achat_starts(pr_id, mode, store) ==
    /\ turn_loop.pc = "idle"
    /\ LET agent == create_agent_from(load_tools(pr_id, store), pr_id, mode, 1)
       IN /\ agent # None
          /\ turn_loop' = LoopRecord("reasoning", agent, 0, <<>>, 0, 0)
    /\ UNCHANGED <<agent_sessions, chat_history, suspended, arrivals, created,
                   last, log_failed, registry>>

\* agent.py:303-310: one iteration of the agent that calls its i-th tool.
\* start_review builds a ReActAgent over its own tools and runs it
\* (review_tool.py:142-177) unless get_pr_data raised (pr_data.py:24-25);
\* any other tool returns.
agent_calls_tool(i, payload) ==
    /\ turn_loop.pc = "reasoning"
    /\ turn_loop.steps < agent_max_iterations
    /\ i \in 1..Len(turn_loop.agent.tools)
    /\ LET tool == turn_loop.agent.tools[i]
       IN IF tool.kind = "review" /\ payload = "present"
          THEN turn_loop' = [turn_loop EXCEPT
                                !.pc = "review",
                                !.steps = @ + 1,
                                !.review_tools = tool.sub_tools,
                                !.review_steps = 0,
                                !.depth = 1]
          ELSE turn_loop' = [turn_loop EXCEPT !.steps = @ + 1]
    /\ UNCHANGED <<agent_sessions, chat_history, suspended, arrivals, created,
                   last, log_failed, registry>>

\* main.py:107-136: achat returns the agent's answer or raises.
agent_ends(outcome) ==
    /\ turn_loop.pc = "reasoning"
    /\ turn_loop' = [turn_loop EXCEPT !.pc = outcome]
    /\ UNCHANGED <<agent_sessions, chat_history, suspended, arrivals, created,
                   last, log_failed, registry>>

\* review_tool.py:145-151, 177: one iteration of the review agent that
\* calls its i-th tool.  A tool of kind "review" among them would start a
\* review agent inside this one.
review_agent_calls_tool(i) ==
    /\ turn_loop.pc = "review"
    /\ turn_loop.review_steps < review_agent_max_iterations
    /\ i \in 1..Len(turn_loop.review_tools)
    /\ LET tool == turn_loop.review_tools[i]
       IN IF tool.kind = "review"
          THEN turn_loop' = [turn_loop EXCEPT
                                !.review_tools = tool.sub_tools,
                                !.review_steps = 0,
                                !.depth = @ + 1]
          ELSE turn_loop' = [turn_loop EXCEPT !.review_steps = @ + 1]
    /\ UNCHANGED <<agent_sessions, chat_history, suspended, arrivals, created,
                   last, log_failed, registry>>

\* review_tool.py:177-188: review_agent.chat returned or raised; either
\* way generate_review returns a text to the agent's loop.
review_agent_ends ==
    /\ turn_loop.pc = "review"
    /\ turn_loop' = [turn_loop EXCEPT !.pc = "reasoning", !.depth = 0]
    /\ UNCHANGED <<agent_sessions, chat_history, suspended, arrivals, created,
                   last, log_failed, registry>>

LoopNext ==
    \/ \E pr_id \in LoopPrIds, mode \in Modes, store \in Stores :
          achat_starts(pr_id, mode, store)
    \/ \E i \in 1..4, payload \in Payloads : agent_calls_tool(i, payload)
    \/ \E outcome \in LoopOutcomes : agent_ends(outcome)
    \/ \E i \in 1..4 : review_agent_calls_tool(i)
    \/ review_agent_ends

\* Every call returns: a loop that can take a step takes one.
SpecLoop == Init /\ [][LoopNext]_vars /\ WF_vars(LoopNext)

(***************************************************************************)
(* C25.  Every turn terminates: the agent's loop takes at most 10 steps,   *)
(* each start_review call at most 30 steps of its own, at most one review  *)
(* agent runs at a time (none inside another), and every turn that has     *)
(* started ends with an answer or an error.                                *)
(***************************************************************************)
C25_EveryTurnTerminates ==
    /\ [](/\ turn_loop.steps <= 10
          /\ turn_loop.review_steps <= 30
          /\ turn_loop.depth <= 1
          /\ \A i \in 1..Len(turn_loop.review_tools) :
                turn_loop.review_tools[i].name # "start_review")
    /\ (turn_loop.pc \in {"reasoning", "review"})
          ~> (turn_loop.pc \in LoopOutcomes)

\* A turn that used all 10 steps, the last review all 30 of its own, has
\* ended with an answer.
C25_Witness ==
    /\ turn_loop.pc = "final"
    /\ turn_loop.steps = 10
    /\ turn_loop.review_steps = 30
====
